---------------------------- MODULE Spec2Model ----------------------------
(***************************************************************************)
(* Airspan Catalog configurator (Airspan_Catalog.py).                      *)
(*                                                                         *)
(* The script is a Streamlit page: every user interaction re-executes the  *)
(* whole script from the top against the widget values held by the         *)
(* session.  The model keeps the widget values as state, has one action    *)
(* per kind of interaction, and each action performs the complete run of   *)
(* the script that the interaction triggers.                               *)
(*                                                                         *)
(* A DataFrame is a sequence of records; the field "index" is the pandas   *)
(* index label, the other fields are the columns.                          *)
(***************************************************************************)
EXTENDS Integers, Sequences, FiniteSets, TLC

(***************************************************************************)
(* Missing values.  NaN stands for a numeric NaN (a blank numeric cell, or *)
(* a value pd.to_numeric could not parse); NaNStr for a blank text cell.   *)
(***************************************************************************)
NaN == -1
NaNStr == "<NaN>"

(***************************************************************************)
(* Bounds of the model.                                                    *)
(***************************************************************************)
\* largest value entered in the base-station quantity input
MaxQty == 2
\* largest quantity typed into a cell of the final table
MaxEditQty == 1
\* largest number of rows of the final table holding an edit at one time
MaxEdits == 1

(***************************************************************************)
(* The program's constants.                                                *)
(***************************************************************************)
\* The product-family columns (lines 23-27); three of the sixteen families
\* and the "-" column are modelled.
product_family_cols == <<"AS1032", "AS1035", "AS1050", "-">>

tag_order ==
    << "Base Station", "Software", "ACP", "Antenna", "Cable",
       "Connector/Splitter/Adapter", "Filter", "Mounting Kit",
       "Multi-Accessory", "Power Supply", "Timing", "Extended Warranty",
       "ASPlus" >>

Tags == {tag_order[i] : i \in DOMAIN tag_order}

\* The ten categories whose stage is the plain "filter by tag, then
\* auto-select or choose" (Steps 4 to 12).
SimpleTags == Tags \ {"Base Station", "Software", "ACP", "ASPlus"}

SpareStage == "Optional/Spare"
Stages == Tags \cup {SpareStage}

(***************************************************************************)
(* Generic DataFrame helpers.                                              *)
(***************************************************************************)
\* df[mask]: the rows satisfying Test, in order, index labels kept.
Filter(df, Test(_)) == SelectSeq(df, Test)

\* Whether two rows agree on every column (the index label is no column).
SameColumns(r1, r2) == [r1 EXCEPT !.index = 0] = [r2 EXCEPT !.index = 0]

SeqToSet(s) == {s[i] : i \in DOMAIN s}

\* Series.unique(): the distinct values in order of first appearance.
RECURSIVE Unique(_)
Unique(s) ==
    IF s = <<>> THEN <<>>
    ELSE LET front == Unique(SubSeq(s, 1, Len(s) - 1))
             last  == s[Len(s)]
         IN  IF last \in SeqToSet(front) THEN front ELSE Append(front, last)

\* DataFrame.drop_duplicates(): keeps the first of the rows that agree on
\* every column; the index label is not compared.
RECURSIVE drop_duplicates(_)
drop_duplicates(df) ==
    IF df = <<>> THEN <<>>
    ELSE LET front == drop_duplicates(SubSeq(df, 1, Len(df) - 1))
             last  == df[Len(df)]
         IN  IF \E i \in DOMAIN front : SameColumns(front[i], last)
             THEN front ELSE Append(front, last)

\* pd.concat of a list of frames.
RECURSIVE concat(_)
concat(frames) ==
    IF frames = <<>> THEN <<>> ELSE Head(frames) \o concat(Tail(frames))

\* df["Quantity"] = q
SetQuantity(df, q) ==
    [i \in DOMAIN df |->
        LET r == df[i]
        IN  [f \in (DOMAIN r) \cup {"Quantity"} |->
                IF f = "Quantity" THEN q ELSE r[f]]]

\* Series.str.lower() on the spectrum labels of the catalog.
Lower(s) ==
    CASE s = "B48" -> "b48"
      [] s = "N48" -> "n48"
      [] s = "B41" -> "b41"
      [] s = "N78" -> "n78"
      [] OTHER     -> s

\* Series == value: a missing cell equals nothing, not even a missing value.
SeriesEq(cell, value) == cell # NaNStr /\ value # NaNStr /\ cell = value

(***************************************************************************)
(* 1) The master catalog (the "Catalog" sheet).                            *)
(***************************************************************************)
Num(v)  == [numeric |-> TRUE,  val |-> v]
Text    == [numeric |-> FALSE, val |-> 0]

Item(pmn, active, tag, spectrum, cbrs, desc, price, config, fams) ==
    [ Product_Marketing_number |-> pmn,
      Active        |-> active,
      Group         |-> "G",
      Tag           |-> tag,
      Spectrum      |-> spectrum,
      CBRS_Only     |-> cbrs,
      Description   |-> desc,
      List_Price    |-> price,
      US_List_Price |-> price,
      Configuration |-> config,
      Comment       |-> "",
      families      |-> fams ]

df ==
    << Item("BS-1", 1, "Base Station", "n48", 1, "BS n48", Num(10), "Default", {"AS1032"}),
       Item("BS-2", 1, "Base Station", "B48", 0, "BS B48", Num(12), "Default", {"AS1032"}),
       Item("BS-3", 1, "Base Station", "n78", 0, "BS n78", Num(9), "Default", {"AS1032"}),
       Item("BS-4", 1, "Base Station", "b41", 0, "BS b41 A", Num(8), "Default", {"AS1035"}),
       Item("BS-5", 1, "Base Station", "b41", 0, "BS b41 B", Num(11), "Default", {"AS1035"}),
       Item("SW-1", 1, "Software", NaNStr, 0, "SW Base", Num(3), "Default", {"AS1032", "-"}),
       Item("SW-2", 1, "Software", NaNStr, NaN, "SW Plus", Num(4), "Default", {"AS1032"}),
       Item("SW-C", 1, "Software", NaNStr, 1, "SW CBRS", Num(2), "Default", {"AS1032"}),
       Item("ACP-C", 1, "ACP", NaNStr, 1, "ACP CBRS", Num(5), "Default", {"AS1032"}),
       Item("ACP-C", 1, "ACP", NaNStr, 1, "ACP CBRS", Num(5), "Default", {"AS1032"}),
       Item("ANT-C", 0, "Antenna", NaNStr, 1, "Antenna CBRS", Num(6), "Default", {"AS1035"}),
       Item("ASP-N", 1, "ASPlus", NaNStr, 0, "ASPlus Std", Text, "Default", {"AS1032", "AS1035"}),
       Item("ASP-C", 1, "ASPlus", NaNStr, 1, "ASPlus CBRS", Num(3), "Default", {"AS1032"}),
       Item("SVC-1", 1, "Services", NaNStr, 0, "Install", Num(20), "Default", {"AS1032", "AS1050"}),
       Item("CAB-X", 1, "Cable", NaNStr, 0, "Cable custom", Num(1), "Custom", {"AS1032", "AS1050"}),
       Item("SP-1", 1, "ASPlus", NaNStr, 1, "ASPlus CBRS spare", Num(3), "Optional/Spare", {"AS1035", "AS1050"}),
       Item("SP-2", 1, "Tools", NaNStr, 0, "Spare tool", Num(1), "Optional/Spare", {"AS1050"}),
       Item("SP-3", 0, "Cable", NaNStr, 0, "Spare cable", Num(1), "Optional/Spare", {"AS1035", "AS1050"}) >>

(***************************************************************************)
(* 3) Melt/unpivot and 4) keep the rows that belong to a family.           *)
(***************************************************************************)
\* One row per (catalog row, family column); the index runs over the first
\* family's rows, then the second's, and so on.
melted_df ==
    LET n == Len(df)
    IN  [k \in 1..(n * Len(product_family_cols)) |->
            LET col == product_family_cols[((k - 1) \div n) + 1]
                src == df[((k - 1) % n) + 1]
            IN  [ index         |-> k - 1,
                  Product_Marketing_number |-> src.Product_Marketing_number,
                  Active        |-> src.Active,
                  Group         |-> src.Group,
                  Tag           |-> src.Tag,
                  Spectrum      |-> src.Spectrum,
                  CBRS_Only     |-> src.CBRS_Only,
                  Description   |-> src.Description,
                  List_Price    |-> src.List_Price,
                  US_List_Price |-> src.US_List_Price,
                  Configuration |-> src.Configuration,
                  Comment       |-> src.Comment,
                  ProductFamily |-> col,
                  CategoryIndicator |-> IF col \in src.families THEN 1 ELSE 0 ]]

df_families == Filter(melted_df, LAMBDA r : r.CategoryIndicator = 1)

\* The options of the family selectbox: the families present, plus "-".
families == {df_families[i].ProductFamily : i \in DOMAIN df_families} \cup {"-"}

(***************************************************************************)
(* Ordering by the Tag categorical.                                        *)
(***************************************************************************)
\* df["Tag"] = pd.Categorical(df["Tag"], categories=tag_order): a tag that
\* is not a category becomes missing.
Categorical(d) ==
    [i \in DOMAIN d |->
        [d[i] EXCEPT !.Tag = IF @ \in Tags THEN @ ELSE NaNStr]]

\* sort_values(by="Tag"): by rank in tag_order, missing tags last.
sort_values(d) ==
    concat([k \in DOMAIN tag_order |->
              Filter(d, LAMBDA r : r.Tag = tag_order[k])])
      \o Filter(d, LAMBDA r : r.Tag \notin Tags)

(***************************************************************************)
(* Family Filter (lines 89-115).                                           *)
(***************************************************************************)
\* The family filter without the restriction to the thirteen tags.
FamilyFilter_AnyTag(selected) ==
    LET by_family == Filter(df_families,
                        LAMBDA r : r.ProductFamily = selected
                                   /\ r.Configuration = "Default")
    IN  sort_values(Categorical(by_family))

FamilyFilter(selected) ==
    LET by_family == Filter(df_families,
                        LAMBDA r : r.ProductFamily = selected
                                   /\ r.Configuration = "Default")
        relevant  == Filter(by_family, LAMBDA r : r.Tag \in Tags)
    IN  sort_values(Categorical(relevant))


\* filtered_data[filtered_data["Tag"] == t]
TagRows(filtered, t) == Filter(filtered, LAMBDA r : r.Tag = t)

(***************************************************************************)
(* auto_select_or_multiselect (lines 123-140).  `chosen` is the value of   *)
(* the multiselect, read only when the multiselect is presented.           *)
(***************************************************************************)
Descriptions(df_subset) == [i \in DOMAIN df_subset |-> df_subset[i].Description]

unique_desc(df_subset) == Unique(Descriptions(df_subset))

\* Whether the call puts a multiselect on the page.
MultiselectPresented(df_subset) ==
    df_subset # <<>> /\ Len(unique_desc(df_subset)) # 1

\* Auto-selecting on a single row rather than a single distinct description.
auto_select_or_multiselect_SingleRow(df_subset, chosen_desc) ==
    IF df_subset = <<>> THEN df_subset
    ELSE IF Len(df_subset) = 1 THEN df_subset
    ELSE Filter(df_subset, LAMBDA r : r.Description \in chosen_desc)

auto_select_or_multiselect(df_subset, chosen_desc) ==
    IF df_subset = <<>> THEN df_subset
    ELSE IF Len(unique_desc(df_subset)) = 1 THEN df_subset
    ELSE Filter(df_subset, LAMBDA r : r.Description \in chosen_desc)

(***************************************************************************)
(* Step 1: Base Station (lines 143-188).                                   *)
(***************************************************************************)
unique_specs(base_stations) ==
    Unique([i \in DOMAIN base_stations |-> base_stations[i].Spectrum])

\* The spectrum selectbox is on the page when there is more than one band.
SpecPresented(base_stations) ==
    base_stations # <<>> /\ Len(unique_specs(base_stations)) # 1

\* The band the stage filters on: the only one, or the selectbox's value.
SpectrumOf(base_stations, choice) ==
    IF base_stations = <<>> THEN NaNStr
    ELSE IF Len(unique_specs(base_stations)) = 1 THEN unique_specs(base_stations)[1]
    ELSE choice

\* base_stations[base_stations["Spectrum"] == spec]
FilterBySpectrum(base_stations, spec) ==
    Filter(base_stations, LAMBDA r : SeriesEq(r.Spectrum, spec))

\* The rows auto_select_or_multiselect returns for the base stations.
chosen_bs_selection(filtered_bs, picked) ==
    IF filtered_bs = <<>> THEN <<>>
    ELSE auto_select_or_multiselect(filtered_bs, picked)

\* system_qty: the number input when a base station is chosen, else the 1
\* of line 145.
Step1_system_qty(selection, qty) == IF selection # <<>> THEN qty ELSE 1

\* specs_chosen = chosen_bs_data["Spectrum"].str.lower().unique()
specs_chosen(chosen_bs) ==
    Unique([i \in DOMAIN chosen_bs |-> Lower(chosen_bs[i].Spectrum)])

\* The gate comparing the bands as written, without lower-casing them.
Step1_is_cbrs_CaseSensitive(chosen_bs) ==
    /\ chosen_bs # <<>>
    /\ \E i \in DOMAIN chosen_bs : chosen_bs[i].Spectrum \in {"b48", "n48"}

Step1_is_cbrs(chosen_bs) ==
    /\ chosen_bs # <<>>
    /\ \E s \in SeqToSet(specs_chosen(chosen_bs)) : s \in {"b48", "n48"}

(***************************************************************************)
(* Steps 2 and 3: Software and ACP, CBRS = extras (lines 194-259).         *)
(***************************************************************************)
normal_rows(items) == Filter(items, LAMBDA r : r.CBRS_Only # 1)

cbrs_rows(items) == Filter(items, LAMBDA r : r.CBRS_Only = 1)

chosen_normal(items, picked) ==
    IF normal_rows(items) # <<>>
    THEN auto_select_or_multiselect(normal_rows(items), picked)
    ELSE <<>>

\* The CBRS extras added whatever the gate says.
chosen_cbrs_Ungated(items, cbrs) == cbrs_rows(items)

chosen_cbrs(items, cbrs) ==
    IF cbrs /\ cbrs_rows(items) # <<>> THEN cbrs_rows(items) ELSE <<>>

\* pd.concat([chosen_normal, chosen_cbrs]).drop_duplicates()
combine_additive(normal_part, cbrs_part) == drop_duplicates(normal_part \o cbrs_part)

chosen_additive(items, picked, cbrs, qty) ==
    LET combined == combine_additive(chosen_normal(items, picked), chosen_cbrs(items, cbrs))
    IN  IF combined # <<>> THEN SetQuantity(combined, qty) ELSE <<>>

(***************************************************************************)
(* Steps 4 to 12: Antenna ... Extended Warranty (lines 265-439).           *)
(***************************************************************************)
chosen_simple(items, picked, qty) ==
    LET selection == IF items # <<>>
                     THEN auto_select_or_multiselect(items, picked) ELSE <<>>
    IN  IF selection # <<>> THEN SetQuantity(selection, qty) ELSE <<>>

(***************************************************************************)
(* Step 13: ASPlus, CBRS is alternative, not additional (lines 445-479).   *)
(***************************************************************************)
\* The variant the stage works on: the CBRS rows under is_cbrs, the normal
\* rows otherwise.
asplus_candidates(items, cbrs) ==
    IF items = <<>> THEN <<>>
    ELSE IF cbrs THEN cbrs_rows(items)
    ELSE normal_rows(items)

chosen_asplus(items, picked, cbrs, qty) ==
    LET selection == IF asplus_candidates(items, cbrs) # <<>>
                     THEN auto_select_or_multiselect(asplus_candidates(items, cbrs), picked)
                     ELSE <<>>
    IN  IF selection # <<>> THEN SetQuantity(selection, qty) ELSE <<>>

(***************************************************************************)
(* Final step: optional/spare items (lines 487-513).                       *)
(***************************************************************************)
spare_df(selected) ==
    sort_values(Categorical(
        Filter(df_families,
               LAMBDA r : r.ProductFamily = selected
                          /\ r.Active = 1
                          /\ r.Configuration = "Optional/Spare")))

row_ids_spare(spare) == [i \in DOMAIN spare |-> spare[i].index]

\* spare_df.loc[chosen_spare_rows]: the rows in the order of the labels.
Loc(d, labels) ==
    [k \in DOMAIN labels |->
        d[CHOOSE i \in DOMAIN d : d[i].index = labels[k]]]

\* The spare rows stamped with the default quantity instead of system_qty.
chosen_spare_data_DefaultQty(spare, labels, qty) ==
    IF spare = <<>> THEN <<>>
    ELSE SetQuantity(Loc(spare, labels), 1)

chosen_spare_data(spare, labels, qty) ==
    IF spare = <<>> THEN <<>>
    ELSE SetQuantity(Loc(spare, labels), qty)

(***************************************************************************)
(* What each stage hands to auto_select_or_multiselect, what it shows and  *)
(* what it appends to all_chosen_items.                                    *)
(***************************************************************************)
stage_order == Append(tag_order, SpareStage)

\* The rows the stage of tag t hands to auto_select_or_multiselect (none
\* when the stage's guard skips the call).
Candidates(t, items, filtered_bs, cbrs) ==
    CASE t = "Base Station"          -> filtered_bs
      [] t \in {"Software", "ACP"}   -> normal_rows(items)
      [] t = "ASPlus"                -> asplus_candidates(items, cbrs)
      [] OTHER                       -> items

\* The rows stage s puts before the user.
StageOffered(s, items, filtered_bs, spare, cbrs) ==
    CASE s = "Base Station"          -> filtered_bs
      [] s \in {"Software", "ACP"}   -> normal_rows(items) \o chosen_cbrs(items, cbrs)
      [] s = "ASPlus"                -> asplus_candidates(items, cbrs)
      [] s = SpareStage              -> spare
      [] OTHER                       -> items

\* The rows stage s appends to the accumulator.
StageAppended(s, items, picked, chosen_bs, spare, labels, cbrs, qty) ==
    CASE s = "Base Station"          -> chosen_bs
      [] s \in {"Software", "ACP"}   -> chosen_additive(items, picked, cbrs, qty)
      [] s = "ASPlus"                -> chosen_asplus(items, picked, cbrs, qty)
      [] s = SpareStage              -> chosen_spare_data(spare, labels, qty)
      [] OTHER                       -> chosen_simple(items, picked, qty)

\* The accumulator at the end of the walkthrough: the non-empty selections
\* in stage order.
Accumulate(per_stage) ==
    SelectSeq([k \in DOMAIN stage_order |-> per_stage[stage_order[k]]],
              LAMBDA d : d # <<>>)

(***************************************************************************)
(* Summarize final selections (lines 521-556).                             *)
(***************************************************************************)
\* pd.to_numeric(errors="coerce") on a price cell.
to_numeric(cell) == IF cell.numeric THEN cell.val ELSE NaN

\* ignore_index=True: the concatenated rows are relabelled 0, 1, 2, ...
ignore_index(d) == [i \in DOMAIN d |-> [d[i] EXCEPT !.index = i - 1]]

\* final_selection["US List Price"] = pd.to_numeric(...)
coerce_price(d) == [i \in DOMAIN d |-> [d[i] EXCEPT !.US_List_Price = to_numeric(@)]]

final_selection(chosen_items) ==
    coerce_price(drop_duplicates(ignore_index(concat(chosen_items))))

cols_to_hide ==
    {"Active", "CBRS_Only", "Spectrum", "List_Price", "ProductFamily",
     "CategoryIndicator"}

\* final_selection.drop(columns=cols_to_hide)
HideColumns(sel) ==
    [i \in DOMAIN sel |->
        LET r == sel[i]
        IN  [f \in (DOMAIN r) \ cols_to_hide |-> r[f]]]

\* A number times a quantity; a missing number stays missing.
Times(price, quantity) == IF price = NaN THEN NaN ELSE price * quantity

\* An extended price that forgets the quantity.
ExtendedPrice_PriceOnly(row) == row.US_List_Price

\* Extended Price = US List Price * Quantity (line 550).
ExtendedPrice(row) == Times(row.US_List_Price, row.Quantity)

\* An editor whose edit of one row lands on the row below it as well.
data_editor_Spill(shown, edits) ==
    [i \in DOMAIN shown |->
        [shown[i] EXCEPT !.Quantity =
            IF i \in DOMAIN edits THEN edits[i]
            ELSE IF (i - 1) \in DOMAIN edits THEN edits[i - 1]
            ELSE @]]

\* st.data_editor: the table with the edits it holds applied.
data_editor(shown, edits) ==
    [i \in DOMAIN shown |->
        [shown[i] EXCEPT !.Quantity = IF i \in DOMAIN edits THEN edits[i] ELSE @]]

\* The edited table with the re-injected Extended Price column.
final_table(shown, edits) ==
    [i \in DOMAIN shown |->
        LET r == data_editor(shown, edits)[i]
            extended == ExtendedPrice(r)
        IN  [f \in (DOMAIN r) \cup {"Extended_Price"} |->
                IF f = "Extended_Price" THEN extended ELSE r[f]]]

\* Series.sum(): missing values are skipped.
RECURSIVE SumSkipNa(_)
SumSkipNa(values) ==
    IF values = <<>> THEN 0
    ELSE (IF Head(values) = NaN THEN 0 ELSE Head(values)) + SumSkipNa(Tail(values))

total_of(table) ==
    SumSkipNa([i \in DOMAIN table |-> table[i].Extended_Price])

(***************************************************************************)
(* The widgets.  A widget keeps its value from one run to the next while   *)
(* it is drawn with the same label and options; a widget that is not       *)
(* drawn, or is drawn with other options, starts again from its default.   *)
(* The session holds the widget values; w is a record:                     *)
(*   selected_family  the family selectbox                                 *)
(*   spec             the spectrum selectbox                               *)
(*   picks            per category, the descriptions ticked in its         *)
(*                    multiselect                                          *)
(*   qty              the base-station quantity number input               *)
(*   spare            the optional/spare multiselect: index labels, in the *)
(*                    order they were ticked                               *)
(*   final_edit       the edits held by the final table's editor: row      *)
(*                    position -> quantity                                 *)
(***************************************************************************)
NoPicks == [t \in Tags |-> {}]

DefaultWidgets ==
    [ selected_family |-> "-", spec |-> NaNStr, picks |-> NoPicks,
      qty |-> 1, spare |-> <<>>, final_edit |-> <<>> ]

multi_label(t, cbrs) ==
    IF t = "ASPlus"
    THEN (IF cbrs THEN "Pick your CBRS ASPlus item(s)"
                  ELSE "Pick your normal ASPlus item(s)")
    ELSE t

\* What identifies the widgets: the options of the spectrum selectbox, and
\* the label and options of a multiselect (<<>> when it is not drawn).
SpecWidget(base_stations) ==
    IF SpecPresented(base_stations) THEN unique_specs(base_stations) ELSE <<>>

MultiWidget(label, df_subset) ==
    IF MultiselectPresented(df_subset) THEN <<label, unique_desc(df_subset)>> ELSE <<>>

\* The value a widget returns: the session's value when the widget was on
\* the previous page too, else the default.
Kept(value, default, widget, previous) ==
    IF value # default /\ widget # <<>> /\ widget = previous THEN value ELSE default

(***************************************************************************)
(* State.                                                                  *)
(***************************************************************************)
VARIABLES
    session,            \* st.session_state: the widget values
    \* the last run: its variables and what it put on the page
    selected_family,
    filtered_data,
    selected_spec,
    filtered_bs_data,
    chosen_bs_data,
    system_qty,
    is_cbrs,
    candidates,         \* per category, the rows handed to auto_select_or_multiselect
    chosen,             \* per category, the value of its multiselect
    chosen_spare_rows,
    offered,            \* per stage, the rows the stage showed
    appended,           \* per stage, the rows the stage appended
    all_chosen_items,
    final_display,
    edited_df,          \* the final table on the page (<<>> when none)
    total_price,
    halted,             \* where the last run stopped
    \* one call of auto_select_or_multiselect on its own
    auto_call

page == <<selected_family, filtered_data, selected_spec, filtered_bs_data,
          chosen_bs_data, system_qty, is_cbrs, candidates, chosen,
          chosen_spare_rows, offered, appended, all_chosen_items,
          final_display, edited_df, total_price>>

vars == <<session, page, halted, auto_call>>

NoAutoCall ==
    [df_subset |-> <<>>, chosen |-> {}, result |-> <<>>,
     presented |-> FALSE, returned |-> FALSE]

\* A run that stops at line 87: nothing below the family selectbox is on
\* the page.
StoppedPage ==
    /\ selected_family' = "-"
    /\ filtered_data' = <<>>
    /\ selected_spec' = NaNStr
    /\ filtered_bs_data' = <<>>
    /\ chosen_bs_data' = <<>>
    /\ system_qty' = 1
    /\ is_cbrs' = FALSE
    /\ candidates' = [t \in Tags |-> <<>>]
    /\ chosen' = NoPicks
    /\ chosen_spare_rows' = <<>>
    /\ offered' = [s \in Stages |-> <<>>]
    /\ appended' = [s \in Stages |-> <<>>]
    /\ all_chosen_items' = <<>>
    /\ final_display' = <<>>
    /\ edited_df' = <<>>
    /\ total_price' = 0

\* The edits the editor applies: those of the session while the table it
\* is given is the table it was given on the previous page.
KeptEdits(raw, shown, previous) ==
    Kept(raw.final_edit, <<>>, shown, previous)

\* A run that goes through every stage (lines 89-556), the widgets holding
\* the values raw.  The unprimed variables are the previous page.
FullPage(raw) ==
    /\ selected_family' = raw.selected_family
    /\ filtered_data' = FamilyFilter(selected_family')
    \* Step 1
    /\ selected_spec' =
         LET base == TagRows(filtered_data', "Base Station")
         IN  SpectrumOf(base,
                 IF SpecWidget(base) = <<>> THEN NaNStr
                 ELSE Kept(raw.spec, SpecWidget(base)[1], SpecWidget(base),
                           SpecWidget(TagRows(filtered_data, "Base Station"))))
    /\ filtered_bs_data' =
         FilterBySpectrum(TagRows(filtered_data', "Base Station"), selected_spec')
    /\ LET picked == Kept(raw.picks["Base Station"], {},
                          MultiWidget("Base Station", filtered_bs_data'),
                          MultiWidget("Base Station", candidates["Base Station"]))
           selection == chosen_bs_selection(filtered_bs_data', picked)
           entered == IF selection # <<>> /\ chosen_bs_data # <<>> THEN raw.qty ELSE 1
       IN  /\ system_qty' = Step1_system_qty(selection, entered)
           /\ chosen_bs_data' =
                IF selection # <<>> THEN SetQuantity(selection, system_qty') ELSE <<>>
    /\ is_cbrs' = Step1_is_cbrs(chosen_bs_data')
    \* Steps 2 to 13
    /\ candidates' =
         [t \in Tags |->
             Candidates(t, TagRows(filtered_data', t), filtered_bs_data', is_cbrs')]
    /\ chosen' =
         [t \in Tags |->
             Kept(raw.picks[t], {},
                  MultiWidget(multi_label(t, is_cbrs'), candidates'[t]),
                  MultiWidget(multi_label(t, is_cbrs), candidates[t]))]
    \* Optional/Spare
    /\ chosen_spare_rows' =
         Kept(raw.spare, <<>>, row_ids_spare(spare_df(selected_family')),
              row_ids_spare(offered[SpareStage]))
    /\ offered' =
         [s \in Stages |->
             StageOffered(s, TagRows(filtered_data', s), filtered_bs_data',
                          spare_df(selected_family'), is_cbrs')]
    /\ appended' =
         [s \in Stages |->
             StageAppended(s, TagRows(filtered_data', s),
                           IF s \in Tags THEN chosen'[s] ELSE {},
                           chosen_bs_data', offered'[SpareStage],
                           chosen_spare_rows', is_cbrs', system_qty')]
    /\ all_chosen_items' = Accumulate(appended')
    \* Summary
    /\ final_display' =
         IF all_chosen_items' # <<>>
         THEN HideColumns(final_selection(all_chosen_items')) ELSE <<>>
    /\ edited_df' =
         final_table(final_display', KeptEdits(raw, final_display', final_display))
    /\ total_price' = total_of(edited_df')

\* A session that keeps what it was handed, the values of widgets the run
\* did not draw included.
WidgetValues_Stale(raw) == raw

\* The widget values a run leaves in the session.
WidgetValues(raw) ==
    [ selected_family |-> selected_family',
      spec       |-> IF SpecWidget(TagRows(filtered_data', "Base Station")) = <<>>
                     THEN NaNStr ELSE selected_spec',
      picks      |-> chosen',
      qty        |-> system_qty',
      spare      |-> chosen_spare_rows',
      final_edit |-> KeptEdits(raw, final_display', final_display) ]

\* One run of the script after an interaction that left the widgets at raw.
Script(raw) ==
    /\ IF raw.selected_family # "-"
       THEN FullPage(raw) /\ halted' = "end"
       ELSE StoppedPage /\ halted' = "no_family"
    /\ session' = WidgetValues(raw)
    /\ UNCHANGED auto_call

\* The page before the first run has drawn anything.
InitPage ==
    /\ session = DefaultWidgets
    /\ selected_family = "-"
    /\ filtered_data = <<>>
    /\ selected_spec = NaNStr
    /\ filtered_bs_data = <<>>
    /\ chosen_bs_data = <<>>
    /\ system_qty = 1
    /\ is_cbrs = FALSE
    /\ candidates = [t \in Tags |-> <<>>]
    /\ chosen = NoPicks
    /\ chosen_spare_rows = <<>>
    /\ offered = [s \in Stages |-> <<>>]
    /\ appended = [s \in Stages |-> <<>>]
    /\ all_chosen_items = <<>>
    /\ final_display = <<>>
    /\ edited_df = <<>>
    /\ total_price = 0
    /\ halted = "no_family"

Init ==
    /\ InitPage
    /\ auto_call = NoAutoCall

(***************************************************************************)
(* The user's interactions.                                                *)
(***************************************************************************)
\* The page is the page of a complete run of the live session.
Live == halted = "end"

\* The family selectbox (lines 76-80).
ChooseFamily(f) ==
    /\ f \in families
    /\ f # session.selected_family
    /\ Script([session EXCEPT !.selected_family = f])

\* The spectrum selectbox (line 161).
ChooseSpectrum(s) ==
    /\ Live
    /\ s \in SeqToSet(SpecWidget(TagRows(filtered_data, "Base Station")))
    /\ s # session.spec
    /\ Script([session EXCEPT !.spec = s])

\* Ticking or unticking one description in a category's multiselect
\* (line 139).
TogglePick(t, d) ==
    /\ Live
    /\ MultiselectPresented(candidates[t])
    /\ d \in SeqToSet(unique_desc(candidates[t]))
    /\ Script([session EXCEPT !.picks[t] =
                  IF d \in @ THEN @ \ {d} ELSE @ \cup {d}])

\* The base-station quantity input (lines 177-181), min_value = 1.
SetQty(n) ==
    /\ Live
    /\ chosen_bs_data # <<>>
    /\ n \in 1..MaxQty
    /\ n # session.qty
    /\ Script([session EXCEPT !.qty = n])

\* Ticking or unticking one row in the optional/spare multiselect
\* (lines 501-505).
ToggleSpare(id) ==
    /\ Live
    /\ id \in SeqToSet(row_ids_spare(offered[SpareStage]))
    /\ Script([session EXCEPT !.spare =
                  IF id \in SeqToSet(@)
                  THEN SelectSeq(@, LAMBDA x : x # id) ELSE Append(@, id)])

\* Typing a quantity into row pos of the final table (lines 538-547),
\* min_value = 0.
EditQuantity(pos, q) ==
    /\ Live
    /\ pos \in DOMAIN edited_df
    /\ q \in 0..MaxEditQty
    /\ q # edited_df[pos].Quantity
    /\ Cardinality((DOMAIN session.final_edit) \cup {pos}) <= MaxEdits
    /\ Script([session EXCEPT !.final_edit =
                  [p \in (DOMAIN @) \cup {pos} |-> IF p = pos THEN q ELSE @[p]]])

\* The top Reset button (lines 72-73): the run sets the family to "-" and
\* stops at line 87.
ResetTop ==
    Script([session EXCEPT !.selected_family = "-"])

\* The bottom Reset button (lines 562-563, reset_app): the run goes through
\* every stage with the widgets as they are, then clears the session and
\* stops.
ResetBottom ==
    /\ Live
    /\ FullPage(session)
    /\ session' = DefaultWidgets
    /\ halted' = "reset"
    /\ UNCHANGED auto_call

\* Any interaction with what the bottom Reset left on the page: the run
\* finds the session empty, sets the family to "-" (lines 63-64) and stops
\* at line 87.
StaleInteraction ==
    /\ halted = "reset"
    /\ Script(DefaultWidgets)

Next ==
    \/ \E f \in families : ChooseFamily(f)
    \/ \E s \in SeqToSet(unique_specs(TagRows(filtered_data, "Base Station"))) : ChooseSpectrum(s)
    \/ \E t \in Tags : \E d \in SeqToSet(unique_desc(candidates[t])) : TogglePick(t, d)
    \/ \E n \in 1..MaxQty : SetQty(n)
    \/ \E id \in SeqToSet(row_ids_spare(offered[SpareStage])) : ToggleSpare(id)
    \/ \E pos \in DOMAIN edited_df : \E q \in 0..MaxEditQty : EditQuantity(pos, q)
    \/ ResetTop
    \/ ResetBottom
    \/ StaleInteraction

Spec == Init /\ [][Next]_vars

(***************************************************************************)
(* auto_select_or_multiselect on its own: a call on any sub-frame of the   *)
(* Software and ACP rows of one family, the user ticking any of the        *)
(* descriptions when the multiselect is presented.                         *)
(***************************************************************************)
AutoPool ==
    Filter(FamilyFilter("AS1032"), LAMBDA r : r.Tag \in {"Software", "ACP"})

\* The sub-frames of the pool: the rows at a set of positions, in order.
AutoInputs ==
    { Filter(AutoPool, LAMBDA r : \E i \in keep : AutoPool[i].index = r.index) :
        keep \in SUBSET (DOMAIN AutoPool) }

AutoInit ==
    /\ InitPage
    /\ \E d \in AutoInputs :
          auto_call = [NoAutoCall EXCEPT !.df_subset = d]

AutoCall(c) ==
    /\ ~auto_call.returned
    /\ c \in SUBSET SeqToSet(unique_desc(auto_call.df_subset))
    /\ MultiselectPresented(auto_call.df_subset) \/ c = {}
    /\ auto_call' =
         [ df_subset |-> auto_call.df_subset,
           chosen    |-> c,
           result    |-> auto_select_or_multiselect(auto_call.df_subset, c),
           presented |-> MultiselectPresented(auto_call.df_subset),
           returned  |-> TRUE ]
    /\ UNCHANGED <<session, page, halted>>

AutoNext ==
    \E c \in SUBSET SeqToSet(unique_desc(auto_call.df_subset)) : AutoCall(c)

AutoSpec == AutoInit /\ [][AutoNext]_vars

(***************************************************************************)
(* Properties.                                                             *)
(***************************************************************************)
MaxReorder == 6

\* A row without its index label and its Quantity stamp.
Bare(r) == [f \in (DOMAIN r) \ {"index", "Quantity"} |-> r[f]]

BareSet(d) == {Bare(d[i]) : i \in DOMAIN d}

RowSet(d) == {d[i] : i \in DOMAIN d}

CbrsOnly(r) == r.CBRS_Only = 1

Rank(t) == CHOOSE k \in DOMAIN tag_order : tag_order[k] = t

RECURSIVE Perms(_)
Perms(S) ==
    IF S = {} THEN {<<>>}
    ELSE UNION {{<<x>> \o p : p \in Perms(S \ {x})} : x \in S}

PermTable == [n \in 0..MaxReorder |-> Perms(1..n)]

Reorder(d, p) == [i \in DOMAIN p |-> d[p[i]]]

\* A spectrum band that is b48 or n48 in some mix of upper and lower case.
CbrsBand(spectrum) == spectrum \in {"b48", "B48", "n48", "N48"}

\* C1: after the Base Station stage is_cbrs is true exactly when some
\* chosen base-station row has the band b48 or n48, upper or lower case; it
\* is false otherwise, also when the family has no base station or none is
\* chosen.
C1_CbrsGate ==
    is_cbrs <=> \E i \in DOMAIN chosen_bs_data : CbrsBand(chosen_bs_data[i].Spectrum)

\* The gate is open on a band written in upper case.
C1_Witness ==
    /\ is_cbrs
    /\ \E i \in DOMAIN chosen_bs_data : chosen_bs_data[i].Spectrum = "B48"

\* The normal rows of category t the user's picks select: all of them when
\* they share one description, else those whose description is ticked.
UserNormalPicks(t) ==
    LET normal == {r \in RowSet(TagRows(filtered_data, t)) : ~CbrsOnly(r)}
    IN  IF Cardinality({r.Description : r \in normal}) = 1 THEN normal
        ELSE {r \in normal : r.Description \in chosen[t]}

\* C2: in Software and in ACP the rows added to the order are the user's
\* normal picks together with every CBRS-only row of the category when
\* is_cbrs is true, duplicates removed, and the normal picks alone when
\* is_cbrs is false.
C2_AdditiveCategories ==
    \A t \in {"Software", "ACP"} :
        LET out  == appended[t]
            cbrs == {r \in RowSet(TagRows(filtered_data, t)) : CbrsOnly(r)}
        IN  /\ BareSet(out) =
                 {Bare(r) : r \in UserNormalPicks(t) \cup (IF is_cbrs THEN cbrs ELSE {})}
            /\ \A i, j \in DOMAIN out : i # j => Bare(out[i]) # Bare(out[j])
            /\ ~is_cbrs => \A i \in DOMAIN out : ~CbrsOnly(out[i])

\* A normal pick and a CBRS extra side by side in Software.
C2_Witness ==
    /\ is_cbrs
    /\ chosen["Software"] # {}
    /\ \E i, j \in DOMAIN appended["Software"] :
          /\ CbrsOnly(appended["Software"][i])
          /\ ~CbrsOnly(appended["Software"][j])
    /\ Len(appended["ACP"]) = 1

\* The rows of d are all of the variant the gate calls for.
OfGatedVariant(d) ==
    \A i \in DOMAIN d : CbrsOnly(d[i]) <=> is_cbrs

\* C3: every ASPlus row offered or added to the order is CBRS-only
\* when is_cbrs is true and normal when it is false, and the order never
\* holds ASPlus rows of both variants.
C3_ExclusiveEverywhere ==
    /\ \A s \in Stages :
          /\ OfGatedVariant(Filter(offered[s], LAMBDA r : r.Tag = "ASPlus"))
          /\ OfGatedVariant(Filter(appended[s], LAMBDA r : r.Tag = "ASPlus"))
    /\ ~ \E s1, s2 \in Stages :
          /\ \E i \in DOMAIN appended[s1] :
                appended[s1][i].Tag = "ASPlus" /\ CbrsOnly(appended[s1][i])
          /\ \E j \in DOMAIN appended[s2] :
                appended[s2][j].Tag = "ASPlus" /\ ~CbrsOnly(appended[s2][j])

\* What step 13 does on its own: every row the ASPlus stage offers or adds
\* to the order is CBRS-only when is_cbrs is true and normal when it is
\* false.  The rows that break the exclusion come from Optional/Spare.
AsplusStageExclusive ==
    /\ OfGatedVariant(offered["ASPlus"])
    /\ OfGatedVariant(appended["ASPlus"])
    /\ \A i, j \in DOMAIN appended["ASPlus"] :
          CbrsOnly(appended["ASPlus"][i]) <=> CbrsOnly(appended["ASPlus"][j])

\* The family has both ASPlus variants and the CBRS one is in the order.
AsplusStageExclusive_Reached ==
    /\ is_cbrs
    /\ appended["ASPlus"] # <<>>
    /\ \E i \in DOMAIN filtered_data :
          filtered_data[i].Tag = "ASPlus" /\ ~CbrsOnly(filtered_data[i])

\* The stages that read the CBRS-only flag.
GatedStages == {"Software", "ACP", "ASPlus"}

\* C4: while is_cbrs is false no CBRS-only row is offered as a
\* choice or added to the order, in any of the thirteen categories or in
\* the Optional/Spare stage.
C4_InvisibleEverywhere ==
    ~is_cbrs =>
        \A s \in Stages :
            /\ \A i \in DOMAIN offered[s] : ~CbrsOnly(offered[s][i])
            /\ \A i \in DOMAIN appended[s] : ~CbrsOnly(appended[s][i])

\* What the three gated stages do on their own: while is_cbrs is false the
\* Software, ACP and ASPlus stages offer and add no CBRS-only row.  The
\* other categories and Optional/Spare do not read the flag.
GatedStagesHideCbrsOnly ==
    ~is_cbrs =>
        \A s \in GatedStages :
            /\ \A i \in DOMAIN offered[s] : ~CbrsOnly(offered[s][i])
            /\ \A i \in DOMAIN appended[s] : ~CbrsOnly(appended[s][i])

\* The gate is shut on a family whose Software, ACP and ASPlus categories
\* all have CBRS-only rows, and a base station is chosen.
GatedStagesHideCbrsOnly_Reached ==
    /\ ~is_cbrs
    /\ chosen_bs_data # <<>>
    /\ \A s \in GatedStages :
          \E i \in DOMAIN filtered_data :
              filtered_data[i].Tag = s /\ CbrsOnly(filtered_data[i])

\* The final table holds no edit.
Unedited == edited_df = final_table(final_display, <<>>)

\* C5: in the final order every row's extended price is its US list price
\* times its quantity (missing when the price is missing), the total is the
\* sum of the extended prices that are not missing, and the total is the
\* same under every reordering of the rows and every order in which the
\* per-category selections are concatenated.
C5_ExtendedPriceAndTotal ==
    /\ \A i \in DOMAIN edited_df :
          edited_df[i].Extended_Price =
              IF edited_df[i].US_List_Price = NaN THEN NaN
              ELSE edited_df[i].US_List_Price * edited_df[i].Quantity
    /\ total_price =
          SumSkipNa([i \in DOMAIN edited_df |-> edited_df[i].Extended_Price])
    /\ Len(edited_df) <= MaxReorder =>
          \A p \in PermTable[Len(edited_df)] :
              total_of(Reorder(edited_df, p)) = total_price
    /\ (Unedited /\ Len(all_chosen_items) <= MaxReorder) =>
          \A p \in PermTable[Len(all_chosen_items)] :
              total_of(final_table(
                  HideColumns(final_selection(Reorder(all_chosen_items, p))),
                  <<>>)) = total_price

\* An order of several categories with a quantity above one, a priced row
\* and a row whose price is missing.
C5_Witness ==
    /\ Len(all_chosen_items) >= 3
    /\ system_qty > 1
    /\ total_price > 0
    /\ \E i \in DOMAIN edited_df : edited_df[i].US_List_Price = NaN
    /\ \E i \in DOMAIN edited_df :
          edited_df[i].Extended_Price > edited_df[i].US_List_Price

\* A price as the total counts it: a missing price adds nothing.
Counted(price) == IF price = NaN THEN 0 ELSE price

\* C6: an edit of one row's quantity in the final table changes that row's
\* quantity and extended price only, leaves every other row as it was, and
\* changes the total by (new quantity - old quantity) times the row's price.
C6_EditIsLocal ==
    [][ (session'.final_edit # session.final_edit /\ session'.final_edit # <<>>)
        => \E pos \in DOMAIN edited_df :
              /\ DOMAIN edited_df' = DOMAIN edited_df
              /\ \A i \in DOMAIN edited_df : i # pos => edited_df'[i] = edited_df[i]
              /\ edited_df'[pos].Quantity # edited_df[pos].Quantity
              /\ [edited_df'[pos] EXCEPT !.Quantity = 0, !.Extended_Price = 0]
                   = [edited_df[pos] EXCEPT !.Quantity = 0, !.Extended_Price = 0]
              /\ total_price' - total_price =
                   (edited_df'[pos].Quantity - edited_df[pos].Quantity)
                       * Counted(edited_df[pos].US_List_Price)
      ]_vars

\* The table holds an edit of a priced row beside rows that keep the
\* stamped quantity.
C6_Witness ==
    /\ halted = "end"
    /\ session.final_edit # <<>>
    /\ Len(edited_df) >= 3
    /\ \E i \in DOMAIN edited_df :
          /\ edited_df[i].Quantity # system_qty
          /\ edited_df[i].US_List_Price > 0
    /\ \E i \in DOMAIN edited_df : edited_df[i].Quantity = system_qty

\* C7: auto_select_or_multiselect returns the empty frame for an empty
\* frame and every row for a frame with one distinct description, in both
\* cases without presenting a choice; otherwise it presents the multiselect
\* and returns the rows whose description is ticked, a subset of the input
\* that is empty when nothing is ticked.
C7_AutoSelectContract ==
    auto_call.returned =>
        LET d     == auto_call.df_subset
            descs == {d[i].Description : i \in DOMAIN d}
            res   == auto_call.result
        IN  /\ d = <<>> => (res = <<>> /\ ~auto_call.presented)
            /\ Cardinality(descs) = 1 => (res = d /\ ~auto_call.presented)
            /\ Cardinality(descs) > 1 =>
                  /\ auto_call.presented
                  /\ RowSet(res) = {r \in RowSet(d) : r.Description \in auto_call.chosen}
                  /\ Len(res) = Cardinality(RowSet(res))
                  /\ auto_call.chosen = {} => res = <<>>

\* Two rows with one description come back whole without a choice.
C7_Witness ==
    /\ auto_call.returned
    /\ Len(auto_call.df_subset) = 2
    /\ auto_call.df_subset[1].Description = auto_call.df_subset[2].Description
    /\ auto_call.result = auto_call.df_subset
    /\ ~auto_call.presented

\* The quantity every stage stamps: the base-station quantity when a base
\* station is chosen, else the default 1.
StampedQty == IF chosen_bs_data # <<>> THEN system_qty ELSE 1

\* C8: before any edit every row added to the order by any stage carries
\* one quantity: the base-station quantity the user entered, at least 1,
\* when a base station is chosen, and the default 1 when none is.
C8_UniformQuantity ==
    /\ system_qty = StampedQty
    /\ StampedQty >= 1
    /\ halted = "end" => system_qty = session.qty
    /\ \A s \in Stages :
          \A i \in DOMAIN appended[s] : appended[s][i].Quantity = StampedQty
    /\ Unedited => \A i \in DOMAIN edited_df : edited_df[i].Quantity = StampedQty

\* A quantity above one stamped on base station, category and spare rows.
C8_Witness ==
    /\ system_qty > 1
    /\ Unedited
    /\ appended["Base Station"] # <<>>
    /\ appended[SpareStage] # <<>>
    /\ Len(all_chosen_items) >= 4

\* C9 as stated: after either Reset button is activated the session holds
\* no selection, the family is back at the placeholder "-", and no order is
\* on the page until a family is picked again.
C9_ResetClearsPage ==
    halted # "end" =>
        /\ session = DefaultWidgets
        /\ all_chosen_items = <<>>
        /\ edited_df = <<>>

\* The rows of the melted catalog the family filter is to keep.
FamilyRows(f) ==
    {r \in RowSet(melted_df) :
        /\ r.ProductFamily = f
        /\ r.CategoryIndicator = 1
        /\ r.Configuration = "Default"
        /\ r.Tag \in Tags}

\* C10: after the Family Filter, filtered_data holds exactly the catalog
\* rows whose indicator for the selected family is 1, whose configuration
\* is Default and whose tag is one of the thirteen, ordered by the rank of
\* the tag; an empty result is no error and the run goes on through every
\* later stage.
C10_FamilyFilter ==
    halted # "no_family" =>
        /\ RowSet(filtered_data) = FamilyRows(selected_family)
        /\ Len(filtered_data) = Cardinality(FamilyRows(selected_family))
        /\ \A i, j \in DOMAIN filtered_data :
              i < j => Rank(filtered_data[i].Tag) <= Rank(filtered_data[j].Tag)
        /\ filtered_data = <<>> =>
              /\ \A t \in Tags : offered[t] = <<>> /\ appended[t] = <<>>
              /\ SeqToSet(row_ids_spare(offered[SpareStage])) =
                    {r.index : r \in
                        {m \in RowSet(melted_df) :
                            /\ m.ProductFamily = selected_family
                            /\ m.CategoryIndicator = 1
                            /\ m.Configuration = "Optional/Spare"
                            /\ m.Active = 1}}

\* The filter keeps rows of several categories and drops a Default row of
\* the family whose tag is not one of the thirteen.
C10_Witness ==
    /\ halted = "end"
    /\ Len(filtered_data) >= 3
    /\ \E r \in RowSet(melted_df) :
          /\ r.ProductFamily = selected_family
          /\ r.CategoryIndicator = 1
          /\ r.Configuration = "Default"
          /\ r.Tag \notin Tags

\* The accumulator after stages k, k+1, ... of a run have appended to acc.
RECURSIVE AppendFrom(_, _, _)
AppendFrom(acc, per_stage, k) ==
    IF k > Len(stage_order) THEN acc
    ELSE AppendFrom(IF per_stage[stage_order[k]] # <<>>
                    THEN Append(acc, per_stage[stage_order[k]]) ELSE acc,
                    per_stage, k + 1)

\* The order of a run that starts from nothing (accumulator empty, is_cbrs
\* false, system_qty 1) with the widgets showing the values w, as a function
\* of the catalog and w alone.
OrderOf(w) ==
    LET family   == w.selected_family
        data     == FamilyFilter(family)
        base     == TagRows(data, "Base Station")
        matching == FilterBySpectrum(base, SpectrumOf(base, w.spec))
        picked   == chosen_bs_selection(matching, w.picks["Base Station"])
        qty      == IF picked # <<>> THEN w.qty ELSE 1
        stations == IF picked # <<>> THEN SetQuantity(picked, qty) ELSE <<>>
        cbrs     == IF \E i \in DOMAIN stations : CbrsBand(stations[i].Spectrum)
                    THEN TRUE ELSE FALSE
        stage    == [s \in Stages |->
                       StageAppended(s, TagRows(data, s),
                                     IF s \in Tags THEN w.picks[s] ELSE {},
                                     stations, spare_df(family), w.spare,
                                     cbrs, qty)]
        items    == AppendFrom(<<>>, stage, 1)
        shown    == IF items # <<>> THEN HideColumns(final_selection(items)) ELSE <<>>
        table    == final_table(shown, w.final_edit)
    IN  [ all_chosen_items |-> items,
          is_cbrs          |-> cbrs,
          system_qty       |-> qty,
          edited_df        |-> table,
          total_price      |-> total_of(table) ]

=============================================================================
